---- MODULE Spec2Model ----
(***************************************************************************)
(* Model of the Hunting Party backend (src/backend/api/main.py): the       *)
(* filter -> aggregate -> compare pipeline of the /analyze-om endpoint.    *)
(*                                                                         *)
(* Representation.  A Python Optional value is a sequence of length 0 or   *)
(* 1: None is <<>> and a present value v is <<v>>.  Money, counts and      *)
(* rents are integers.  A Python float quotient sum(xs) / len(xs) is kept  *)
(* exactly, as the rational [n |-> numerator, d |-> denominator], d > 0.   *)
(* The decimal literals of the source are written in the unit that makes   *)
(* them integers: cap rates in tenths of a percent (5.4 is 54), distances  *)
(* in tenths of a mile, lot sizes in hundredths of an acre and the vacancy *)
(* rate in hundredths (0.06 is 6).                                         *)
(***************************************************************************)
EXTENDS Integers, Sequences, FiniteSets, TLC

\* ------------------------------------------------------------------------
\* Bounds of the model
\* ------------------------------------------------------------------------
MaxVal == 2
MaxComps == 2
MaxSetBounds == 1
MaxRows == 1

\* ------------------------------------------------------------------------
\* Optional values and Python truthiness
\* ------------------------------------------------------------------------
None == <<>>
Some(v) == <<v>>
Val(x) == x[1]

\* bool(x) for an Optional number: None and 0 are both falsy
Truthy(x) == x # None /\ Val(x) # 0

Vals == {5 * k : k \in 0..MaxVal}
OptVals == {None} \cup {Some(v) : v \in Vals}

\* ------------------------------------------------------------------------
\* Data models
\* ------------------------------------------------------------------------
\* UnitRentData() with every rent left at its default
UnitRentData == [one_bed |-> None, two_bed |-> None, three_bed |-> None, four_bed |-> None]

\* CompProperty(source, address) with every optional field left at its default
CompProperty ==
    [price |-> None, units |-> None, cap_rate |-> None, price_per_unit |-> None,
     price_per_sqft |-> None, price_per_acre |-> None, noi |-> None,
     distance_miles |-> None, unit_rents |-> None]

\* CompFilterRequest() with every bound left at its default
CompFilterRequest ==
    [price_min |-> None, price_max |-> None, units_min |-> None, units_max |-> None,
     distance_miles |-> None, cap_rate_min |-> None, cap_rate_max |-> None,
     price_per_unit_min |-> None, price_per_unit_max |-> None,
     price_per_sqft_min |-> None, price_per_sqft_max |-> None,
     price_per_acre_min |-> None, price_per_acre_max |-> None]

NumericFields == {"price", "units", "cap_rate", "price_per_unit", "price_per_sqft",
                  "price_per_acre", "noi", "distance_miles"}
RentFields == {"one_bed", "two_bed", "three_bed", "four_bed"}
BoundNames == {"price_min", "price_max", "units_min", "units_max", "distance_miles",
               "cap_rate_min", "cap_rate_max", "price_per_unit_min", "price_per_unit_max",
               "price_per_sqft_min", "price_per_sqft_max",
               "price_per_acre_min", "price_per_acre_max"}

\* ------------------------------------------------------------------------
\* apply_filters
\* ------------------------------------------------------------------------
\* variant: a comparable that lacks the field fails the bound
BelowMin_MissingFails(bound, field) ==
    Truthy(bound) /\ (field = None \/ Val(field) < Val(bound))

\* `if filters.x_min and comp.x and comp.x < filters.x_min: continue`
BelowMin(bound, field) == Truthy(bound) /\ Truthy(field) /\ Val(field) < Val(bound)

\* variant: an unset maximum is read as the maximum 0
AboveMax_UnsetIsZero(bound, field) ==
    Truthy(field) /\ (bound = None \/ Val(field) > Val(bound))

\* `if filters.x_max and comp.x and comp.x > filters.x_max: continue`
AboveMax(bound, field) == Truthy(bound) /\ Truthy(field) /\ Val(field) > Val(bound)

\* the body of the loop reaches a `continue` for this comparable
Skipped(comp, filters) ==
    \/ BelowMin(filters.price_min, comp.price)
    \/ AboveMax(filters.price_max, comp.price)
    \/ BelowMin(filters.units_min, comp.units)
    \/ AboveMax(filters.units_max, comp.units)
    \/ AboveMax(filters.distance_miles, comp.distance_miles)
    \/ BelowMin(filters.cap_rate_min, comp.cap_rate)
    \/ AboveMax(filters.cap_rate_max, comp.cap_rate)
    \/ BelowMin(filters.price_per_unit_min, comp.price_per_unit)
    \/ AboveMax(filters.price_per_unit_max, comp.price_per_unit)
    \/ BelowMin(filters.price_per_sqft_min, comp.price_per_sqft)
    \/ AboveMax(filters.price_per_sqft_max, comp.price_per_sqft)
    \/ BelowMin(filters.price_per_acre_min, comp.price_per_acre)
    \/ AboveMax(filters.price_per_acre_max, comp.price_per_acre)

\* variant: survivors are inserted at the front of the result
FilterStep_Prepend(filtered_comps, comp, filters) ==
    IF Skipped(comp, filters) THEN filtered_comps ELSE <<comp>> \o filtered_comps

\* one iteration of `for comp in comps`: continue, or filtered_comps.append(comp)
FilterStep(filtered_comps, comp, filters) ==
    IF Skipped(comp, filters) THEN filtered_comps ELSE Append(filtered_comps, comp)

RECURSIVE FilterLoop(_, _, _, _)
FilterLoop(comps, filters, i, filtered_comps) ==
    IF i > Len(comps) THEN filtered_comps
    ELSE FilterLoop(comps, filters, i + 1, FilterStep(filtered_comps, comps[i], filters))

apply_filters(comps, filters) == FilterLoop(comps, filters, 1, <<>>)

\* ------------------------------------------------------------------------
\* Inputs of the function-level specifications
\* ------------------------------------------------------------------------
\* comparables reporting at most one field, as the market data pivot builds them
\* (plus units and distance, which only the built-in comparables report)
CompUniverse ==
    {CompProperty}
    \cup {[CompProperty EXCEPT ![f] = Some(v)] : f \in NumericFields, v \in Vals}
    \cup {[CompProperty EXCEPT !.unit_rents = Some(UnitRentData)]}
    \cup {[CompProperty EXCEPT !.unit_rents = Some([UnitRentData EXCEPT ![r] = Some(v)])] :
            r \in RentFields, v \in Vals}

RECURSIVE SeqsUpTo(_, _)
SeqsUpTo(S, n) ==
    IF n = 0 THEN {<<>>}
    ELSE LET shorter == SeqsUpTo(S, n - 1)
         IN  shorter \cup {Append(s, x) : s \in {t \in shorter : Len(t) = n - 1}, x \in S}

RECURSIVE FiltersWith(_)
FiltersWith(n) ==
    IF n = 0 THEN {CompFilterRequest}
    ELSE LET fewer == FiltersWith(n - 1)
         IN  fewer \cup {[f EXCEPT ![b] = Some(v)] : f \in fewer, b \in BoundNames, v \in Vals}

FilterUniverse == FiltersWith(MaxSetBounds)

\* requests that set one bound or none
SingleBoundFilters ==
    {CompFilterRequest}
    \cup {[CompFilterRequest EXCEPT ![b] = Some(v)] : b \in BoundNames, v \in Vals}

\* the comparables of CompUniverse told apart by apply_filters: those that
\* report one of the seven fields a bound refers to, or none
FilterableComps == {c \in CompUniverse : c.noi = None /\ c.unit_rents = None}

\* ------------------------------------------------------------------------
\* calculate_comp_stats
\* ------------------------------------------------------------------------
\* exact value of sum(xs) / len(xs), and of the literal 0
Rat(n, d) == [n |-> n, d |-> d]
Zero == Rat(0, 1)

RECURSIVE sum(_)
sum(xs) == IF xs = <<>> THEN 0 ELSE Head(xs) + sum(Tail(xs))

\* variant: `if c.f` in place of `if c.f is not None`
IsReported_Truthy(x) == Truthy(x)

\* the `is not None` test of the list comprehensions
IsReported(x) == x # None

\* `[c.f for c in comps if c.f is not None]`
Reported(objs, f) ==
    LET kept == SelectSeq(objs, LAMBDA c : IsReported(c[f]))
    IN  [i \in 1..Len(kept) |-> Val(kept[i][f])]

\* `[c.unit_rents for c in comps if c.unit_rents is not None]`
ReportedUnitRents(cs) ==
    LET kept == SelectSeq(cs, LAMBDA c : c.unit_rents # None)
    IN  [i \in 1..Len(kept) |-> Val(kept[i].unit_rents)]

\* `sum(xs) / len(xs) if xs else 0`
AvgOrZero(xs) == IF xs # <<>> THEN Some(Rat(sum(xs), Len(xs))) ELSE Some(Zero)

\* `sum(xs) / len(xs) if xs else None`
AvgOrNone(xs) == IF xs # <<>> THEN Some(Rat(sum(xs), Len(xs))) ELSE None

\* `CompStats(0, 0, 0, 0, None, 0, 0, None, None, None)`
EmptyCompStats ==
    [total_scraped |-> 0, filtered_count |-> 0, avg_price |-> Some(Zero),
     avg_units |-> Some(Zero), avg_cap_rate |-> None, avg_price_per_unit |-> Some(Zero),
     avg_price_per_sqft |-> Some(Zero), avg_price_per_acre |-> None, avg_noi |-> None,
     avg_unit_rents |-> None]

\* `[c.unit_rents for c in comps if c.unit_rents is not None]` and the four averages
AvgUnitRents(cs) ==
    LET unit_rents == ReportedUnitRents(cs)
    IN  IF unit_rents # <<>>
        THEN Some([one_bed   |-> AvgOrNone(Reported(unit_rents, "one_bed")),
                   two_bed   |-> AvgOrNone(Reported(unit_rents, "two_bed")),
                   three_bed |-> AvgOrNone(Reported(unit_rents, "three_bed")),
                   four_bed  |-> AvgOrNone(Reported(unit_rents, "four_bed"))])
        ELSE None

calculate_comp_stats(cs) ==
    IF cs = <<>> THEN EmptyCompStats
    ELSE [total_scraped      |-> Len(cs),
          filtered_count     |-> Len(cs),
          avg_price          |-> AvgOrZero(Reported(cs, "price")),
          avg_units          |-> AvgOrZero(Reported(cs, "units")),
          avg_cap_rate       |-> AvgOrNone(Reported(cs, "cap_rate")),
          avg_price_per_unit |-> AvgOrZero(Reported(cs, "price_per_unit")),
          avg_price_per_sqft |-> AvgOrZero(Reported(cs, "price_per_sqft")),
          avg_price_per_acre |-> AvgOrNone(Reported(cs, "price_per_acre")),
          avg_noi            |-> AvgOrNone(Reported(cs, "noi")),
          avg_unit_rents     |-> AvgUnitRents(cs)]

\* ------------------------------------------------------------------------
\* calculate_comparisons
\* ------------------------------------------------------------------------
\* bool(a) for an Optional average
TruthyAvg(a) == a # None /\ Val(a).n # 0

\* a quotient with a positive denominator
Normal(r) == IF r.d < 0 THEN Rat(0 - r.n, 0 - r.d) ELSE r

\* `((om - market) / market) * 100`, for market # 0: with market = n / d this
\* is ((om * d - n) / n) * 100
PercentDeviation(om, market) ==
    Normal(Rat((om * market.d - market.n) * 100, market.n))

\* the cap rate comparison computed as the price comparisons are
PointDeviation_AsPercent(om, market) == PercentDeviation(om, market)

\* `om - market` in percentage points, the two cap rates being in tenths
PointDeviation(om, market) == Rat(om * market.d - market.n, 10 * market.d)

\* n / d rounded to the nearest integer, ties to even, for n >= 0 and d > 0
RoundHalfEven(n, d) ==
    LET q == n \div d
        r == n % d
    IN  IF 2 * r < d THEN q
        ELSE IF 2 * r > d THEN q + 1
        ELSE IF q % 2 = 0 THEN q ELSE q + 1

\* f"{'+' if deviation > 0 else ''}{deviation:.1f}<unit>": the sign written,
\* the magnitude in tenths as `.1f` rounds it, and the text after the number
DeviationComment(deviation, unit) ==
    [sign   |-> IF deviation.n > 0 THEN "+" ELSE IF deviation.n < 0 THEN "-" ELSE "",
     tenths |-> RoundHalfEven(10 * (IF deviation.n < 0 THEN 0 - deviation.n ELSE deviation.n),
                              deviation.d),
     unit   |-> unit]

ComparisonResult(metric_name, om_value, market_value, deviation, unit) ==
    [metric_name       |-> metric_name,
     om_value          |-> om_value,
     market_value      |-> market_value,
     deviation_percent |-> deviation,
     deviation_comment |-> DeviationComment(deviation, unit)]

\* the call so far: the `comparisons` list, or an exception that left the function
Returning(comparisons) == [raised |-> FALSE, comparisons |-> comparisons]
Raising == [raised |-> TRUE, comparisons |-> <<>>]

\* the body of a ratio comparison: TypeError on a None operand,
\* ZeroDivisionError on a zero market average, else comparisons.append(...)
AppendRatio(acc, metric_name, om_value, market_value, unit) ==
    IF om_value = None \/ market_value = None THEN Raising
    ELSE IF Val(market_value).n = 0 THEN Raising
    ELSE Returning(Append(acc.comparisons,
            ComparisonResult(metric_name, om_value, market_value,
                             PercentDeviation(Val(om_value), Val(market_value)), unit)))

\* the body of the cap rate comparison: TypeError on a None operand
AppendPoints(acc, metric_name, om_value, market_value, unit) ==
    IF om_value = None \/ market_value = None THEN Raising
    ELSE Returning(Append(acc.comparisons,
            ComparisonResult(metric_name, om_value, market_value,
                             PointDeviation(Val(om_value), Val(market_value)), unit)))

\* `if crexi_stats.avg_price_per_unit > 0:` and its body
PricePerUnitComparison(om_data, crexi_stats, acc) ==
    IF acc.raised THEN acc
    ELSE IF crexi_stats.avg_price_per_unit = None THEN Raising
    ELSE IF Val(crexi_stats.avg_price_per_unit).n > 0
         THEN AppendRatio(acc, "Price per Unit", om_data.price_per_unit,
                          crexi_stats.avg_price_per_unit, "% vs CREXi market")
         ELSE acc

\* `if crexi_stats.avg_price_per_sqft > 0:` and its body
PricePerSqftComparison(om_data, crexi_stats, acc) ==
    IF acc.raised THEN acc
    ELSE IF crexi_stats.avg_price_per_sqft = None THEN Raising
    ELSE IF Val(crexi_stats.avg_price_per_sqft).n > 0
         THEN AppendRatio(acc, "Price per SqFt", om_data.price_per_sqft,
                          crexi_stats.avg_price_per_sqft, "% vs CREXi market")
         ELSE acc

\* variant: `is not None` tests in place of the truth tests
CapRateGuard_NotNone(om_value, market_value) == market_value # None /\ om_value # None

\* `crexi_stats.avg_cap_rate and om_data['cap_rate']`
CapRateGuard(om_value, market_value) == TruthyAvg(market_value) /\ Truthy(om_value)

\* `if crexi_stats.avg_cap_rate and om_data['cap_rate']:` and its body
CapRateComparison(om_data, crexi_stats, acc) ==
    IF acc.raised THEN acc
    ELSE IF CapRateGuard(om_data.cap_rate, crexi_stats.avg_cap_rate)
         THEN AppendPoints(acc, "Cap Rate", om_data.cap_rate,
                           crexi_stats.avg_cap_rate, "pp vs CREXi market")
         ELSE acc

\* variant: only the market side of the rent is tested
RentGuard_MarketOnly(om_value, market_value) == TruthyAvg(market_value)

\* `om_data['unit_rents'][r] and realtor_stats.avg_unit_rents.r`
RentGuard(om_value, market_value) == Truthy(om_value) /\ TruthyAvg(market_value)

\* the 1BR block inside `if realtor_stats.avg_unit_rents:`
OneBedComparison(om_data, realtor_stats, acc) ==
    IF acc.raised \/ realtor_stats.avg_unit_rents = None THEN acc
    ELSE IF RentGuard(om_data.unit_rents.one_bed, Val(realtor_stats.avg_unit_rents).one_bed)
         THEN AppendRatio(acc, "1BR Rent", om_data.unit_rents.one_bed,
                          Val(realtor_stats.avg_unit_rents).one_bed, "% vs Realtor market")
         ELSE acc

\* variant: the 2BR block sits inside the body of the 1BR block
TwoBedComparison_Nested(om_data, realtor_stats, acc) ==
    IF acc.raised \/ realtor_stats.avg_unit_rents = None THEN acc
    ELSE IF /\ RentGuard(om_data.unit_rents.one_bed, Val(realtor_stats.avg_unit_rents).one_bed)
            /\ RentGuard(om_data.unit_rents.two_bed, Val(realtor_stats.avg_unit_rents).two_bed)
         THEN AppendRatio(acc, "2BR Rent", om_data.unit_rents.two_bed,
                          Val(realtor_stats.avg_unit_rents).two_bed, "% vs Realtor market")
         ELSE acc

\* the 2BR block inside `if realtor_stats.avg_unit_rents:`
TwoBedComparison(om_data, realtor_stats, acc) ==
    IF acc.raised \/ realtor_stats.avg_unit_rents = None THEN acc
    ELSE IF RentGuard(om_data.unit_rents.two_bed, Val(realtor_stats.avg_unit_rents).two_bed)
         THEN AppendRatio(acc, "2BR Rent", om_data.unit_rents.two_bed,
                          Val(realtor_stats.avg_unit_rents).two_bed, "% vs Realtor market")
         ELSE acc

calculate_comparisons(om_data, crexi_stats, realtor_stats) ==
    TwoBedComparison(om_data, realtor_stats,
      OneBedComparison(om_data, realtor_stats,
        CapRateComparison(om_data, crexi_stats,
          PricePerSqftComparison(om_data, crexi_stats,
            PricePerUnitComparison(om_data, crexi_stats, Returning(<<>>))))))

\* ------------------------------------------------------------------------
\* Inputs of the calculate_comparisons specification
\* ------------------------------------------------------------------------
\* the `om_metrics` dict of analyze_om: three floats of FinancialMetrics and the
\* four optional rents of UnitRentData (only the first two are read)
SubjectUniverse ==
    {[price_per_unit |-> Some(u), price_per_sqft |-> Some(s), cap_rate |-> Some(c),
      unit_rents |-> [UnitRentData EXCEPT !.one_bed = r1, !.two_bed = r2]] :
        u \in Vals, s \in Vals, c \in Vals, r1 \in OptVals, r2 \in OptVals}

\* what the market reports of one metric: nothing, a zero, or a positive value
MarketLevels == {None, Some(0), Some(5)}

\* the comparable, if any, that carries a reported field
Carrier(f, x) == IF x = None THEN <<>> ELSE <<[CompProperty EXCEPT ![f] = x]>>

\* the comparable, if any, that carries a reported rent
RentCarrier(r, x) ==
    IF x = None THEN <<>>
    ELSE <<[CompProperty EXCEPT !.unit_rents = Some([UnitRentData EXCEPT ![r] = x])]>>

\* stats of the CREXi lists: at most one comparable for each compared field
CrexiMarkets ==
    {calculate_comp_stats(Carrier("price_per_unit", u) \o Carrier("price_per_sqft", s)
                          \o Carrier("cap_rate", c)) :
        u \in MarketLevels, s \in MarketLevels, c \in MarketLevels}

\* what the market reports of one rent: the table may also hold a negative value
RentLevels == MarketLevels \cup {Some(-5)}

\* stats of the Realtor lists: at most one comparable for each compared rent,
\* and the lists whose one comparable has unit rents but reports none
RealtorMarkets ==
    {calculate_comp_stats(RentCarrier("one_bed", r1) \o RentCarrier("two_bed", r2)) :
        r1 \in RentLevels, r2 \in RentLevels}
    \cup {calculate_comp_stats(<<[CompProperty EXCEPT !.unit_rents = Some(UnitRentData)]>>)}

\* ------------------------------------------------------------------------
\* parse_csv_om_data
\* ------------------------------------------------------------------------
\* what csv.DictReader holds for one column of the first row
Cell(k, v) == [k |-> k, v |-> v]
Absent == Cell("absent", 0)      \* the header does not name the column
Short == Cell("short", 0)        \* the row ends before the column: the value is None
Empty == Cell("empty", 0)        \* ''
Junk == Cell("junk", 0)          \* text that float() rejects
Num(v) == Cell("num", v)         \* the text of the number v
Yes == Cell("yes", 0)            \* 'Yes'
No == Cell("no", 0)              \* 'No'
Address(i) == Cell("address", i) \* the text of Addresses[i]

\* an address as its comma separated parts, each part as its words
Addresses ==
    <<  << <<"123", "Main", "St">>, <<"Tampa">>, <<"FL">> >>,
        << <<"1", "Bay", "Rd">>, <<"Miami">>, <<"FL">> >>,
        << <<"Nowhere">> >>  >>

NumericColumns == {"cap_rate", "rentable_sqft", "avg_sqft_per_unit", "asking_price",
                   "lot_size_acres", "total_units", "noi", "price_per_sqft",
                   "price_per_unit", "price_per_acre", "vacancy_rate",
                   "gross_potential_rent"}
RentColumns == {"one_bed_rent", "two_bed_rent", "three_bed_rent", "four_bed_rent"}

\* the example row of get_csv_template; effective_gross_income is a column
\* the template does not have and an upload may add
ExampleRow ==
    [address |-> Address(1), opportunity_zone |-> No, cap_rate |-> Num(54),
     rentable_sqft |-> Num(108750), avg_sqft_per_unit |-> Num(920),
     asking_price |-> Num(34250000), lot_size_acres |-> Num(185), total_units |-> Num(120),
     one_bed_rent |-> Num(1650), two_bed_rent |-> Num(2100), three_bed_rent |-> Num(2450),
     four_bed_rent |-> Num(2800), noi |-> Num(1890000), price_per_sqft |-> Num(315),
     price_per_unit |-> Num(285417), price_per_acre |-> Num(18513514),
     vacancy_rate |-> Num(6), gross_potential_rent |-> Num(2300000),
     effective_gross_income |-> Absent]

\* `float(row.get(col, 0))` raises: TypeError on None, ValueError on other text
FloatRaises(cell) == cell.k \in {"short", "empty", "junk"}

\* `float(row.get(col, 0))`, when it does not raise
Float(cell) == IF cell.k = "absent" THEN 0 ELSE cell.v

\* `float(row.get(col, 0)) if row.get(col) else None` raises
RentRaises(cell) == cell.k = "junk"

\* `float(row.get(col, 0)) if row.get(col) else None`, when it does not raise
Rent(cell) == IF cell.k = "num" THEN Some(cell.v) ELSE None

\* `row.get('address', '')`
AddressOf(cell) ==
    CASE cell.k = "absent"  -> Some(<< <<>> >>)
      [] cell.k = "short"   -> None
      [] cell.k = "empty"   -> Some(<< <<>> >>)
      [] cell.k = "address" -> Some(Addresses[cell.v])

\* `row.get('opportunity_zone', '').lower()` raises AttributeError on None
ZoneRaises(cell) == cell.k = "short"

\* `gross_potential_rent * (1 - vacancy_rate)`, the rate being in hundredths
EffectiveGrossIncome(gross_potential_rent, vacancy_rate) ==
    Rat(gross_potential_rent * (100 - vacancy_rate), 100)

\* lines 181-187 reading the income from the row when the row has one
VacancyEGI_Supplied(row) ==
    [vacancy_rate           |-> Float(row.vacancy_rate),
     gross_potential_rent   |-> Float(row.gross_potential_rent),
     effective_gross_income |->
        IF row.effective_gross_income.k = "num"
        THEN Rat(row.effective_gross_income.v, 1)
        ELSE EffectiveGrossIncome(Float(row.gross_potential_rent), Float(row.vacancy_rate))]

\* lines 181-187: the rate and the rent are read, the income is computed
VacancyEGI(row) ==
    [vacancy_rate           |-> Float(row.vacancy_rate),
     gross_potential_rent   |-> Float(row.gross_potential_rent),
     effective_gross_income |->
        EffectiveGrossIncome(Float(row.gross_potential_rent), Float(row.vacancy_rate))]

\* an uploaded file: whether it decodes as UTF-8, and its data rows
Upload(decodes, rows) == [decodes |-> decodes, rows |-> rows]

\* outcome of parse_csv_om_data: the dict, or HTTPException(status_code, detail)
Parsed(om) == [raised |-> FALSE, status_code |-> 0, detail |-> "", om_data |-> Some(om)]
HTTPException(status_code, detail) ==
    [raised |-> TRUE, status_code |-> status_code, detail |-> detail, om_data |-> None]

\* the body of the `try` of parse_csv_om_data raises
ParseRaises(rows) ==
    \/ rows = <<>>
    \/ ZoneRaises(rows[1].opportunity_zone)
    \/ \E col \in NumericColumns : FloatRaises(rows[1][col])
    \/ \E col \in RentColumns : RentRaises(rows[1][col])

parse_csv_om_data(csv_rows) ==
    IF ParseRaises(csv_rows) THEN HTTPException(400, "Error parsing CSV")
    ELSE LET row == csv_rows[1]
         IN  Parsed([
                property_summary |->
                    [address           |-> AddressOf(row.address),
                     opportunity_zone  |-> row.opportunity_zone.k = "yes",
                     cap_rate          |-> Float(row.cap_rate),
                     rentable_sqft     |-> Float(row.rentable_sqft),
                     avg_sqft_per_unit |-> Float(row.avg_sqft_per_unit),
                     asking_price      |-> Float(row.asking_price),
                     lot_size_acres    |-> Float(row.lot_size_acres),
                     total_units       |-> Float(row.total_units)],
                unit_rents |->
                    [one_bed   |-> Rent(row.one_bed_rent),
                     two_bed   |-> Rent(row.two_bed_rent),
                     three_bed |-> Rent(row.three_bed_rent),
                     four_bed  |-> Rent(row.four_bed_rent)],
                financials |->
                    [noi            |-> Float(row.noi),
                     cap_rate       |-> Float(row.cap_rate),
                     price_per_sqft |-> Float(row.price_per_sqft),
                     price_per_unit |-> Float(row.price_per_unit),
                     price_per_acre |-> Float(row.price_per_acre)],
                vacancy_egi |-> VacancyEGI(row)])

\* ------------------------------------------------------------------------
\* Built-in data
\* ------------------------------------------------------------------------
get_mock_om_data ==
    [property_summary |->
        [address |-> Some(Addresses[1]), opportunity_zone |-> FALSE, cap_rate |-> 54,
         rentable_sqft |-> 108750, avg_sqft_per_unit |-> 920, asking_price |-> 34250000,
         lot_size_acres |-> 185, total_units |-> 120],
     unit_rents |->
        [one_bed |-> Some(1650), two_bed |-> Some(2100), three_bed |-> Some(2450),
         four_bed |-> Some(2800)],
     financials |->
        [noi |-> 1890000, cap_rate |-> 54, price_per_sqft |-> 315,
         price_per_unit |-> 285417, price_per_acre |-> 18513514],
     vacancy_egi |->
        [vacancy_rate |-> 6, gross_potential_rent |-> 2300000,
         effective_gross_income |-> Rat(2162000, 1)]]

MockCrexi(price, units, cap_rate, per_unit, per_sqft, per_acre, noi, distance_miles) ==
    [price |-> Some(price), units |-> Some(units), cap_rate |-> Some(cap_rate),
     price_per_unit |-> Some(per_unit), price_per_sqft |-> Some(per_sqft),
     price_per_acre |-> Some(per_acre), noi |-> Some(noi),
     distance_miles |-> Some(distance_miles), unit_rents |-> None]

get_mock_crexi_comps ==
    << MockCrexi(33500000, 115, 55, 291304, 312, 18200000, 1842500, 8),
       MockCrexi(32000000, 108, 53, 296296, 318, 19000000, 1696000, 12),
       MockCrexi(35500000, 125, 54, 284000, 309, 18800000, 1917000, 5) >>

MockRealtor(distance_miles, one_bed, two_bed, three_bed, four_bed) ==
    [CompProperty EXCEPT
        !.distance_miles = Some(distance_miles),
        !.unit_rents = Some([one_bed |-> Some(one_bed), two_bed |-> Some(two_bed),
                             three_bed |-> Some(three_bed), four_bed |-> Some(four_bed)])]

get_mock_realtor_comps ==
    << MockRealtor(9, 1525, 1943, 2263, 2538),
       MockRealtor(11, 1580, 1980, 2320, 2580),
       MockRealtor(7, 1480, 1920, 2240, 2520) >>

\* ------------------------------------------------------------------------
\* extract_geography_from_address
\* ------------------------------------------------------------------------
\* `address.split(',')` raises AttributeError on None
GeographyRaises(address) == address = None

\* the last two comma separated parts, or the default "Tampa, FL"
extract_geography_from_address(address) ==
    LET parts == Val(address)
    IN  IF Len(parts) >= 2 THEN <<parts[Len(parts) - 1], parts[Len(parts)]>>
        ELSE << <<"Tampa">>, <<"FL">> >>

\* ------------------------------------------------------------------------
\* get_supabase_market_data
\* ------------------------------------------------------------------------
\* a record of the market_metrics table
MarketRecord(metric_name, unit_type, value) ==
    [metric_name |-> metric_name, unit_type |-> unit_type, value |-> value]

CrexiMetricNames == {"asking_price", "cap_rate_pct", "price_per_unit_usd",
                     "price_per_sf_usd", "price_per_acre_usd", "noi_usd"}
UnitTypes == {"1BR", "2BR", "3BR", "4BR"}

\* `float(record.get('value', 0)) if record.get('metric_name') == name else None`
\* raises TypeError when the metric matches and the value is null
PivotRaises(record, name) == record.metric_name = name /\ record.value = None

Pivot(record, name) == IF record.metric_name = name THEN record.value ELSE None

CrexiRecordRaises(record) == \E name \in CrexiMetricNames : PivotRaises(record, name)

\* the CompProperty built from a CREXi record
CrexiComp(record) ==
    [price          |-> Pivot(record, "asking_price"),
     units          |-> None,
     cap_rate       |-> Pivot(record, "cap_rate_pct"),
     price_per_unit |-> Pivot(record, "price_per_unit_usd"),
     price_per_sqft |-> Pivot(record, "price_per_sf_usd"),
     price_per_acre |-> Pivot(record, "price_per_acre_usd"),
     noi            |-> Pivot(record, "noi_usd"),
     distance_miles |-> None,
     unit_rents     |-> None]

\* `... if metric_name == 'avg_rent_usd_month' and unit_type == t else None`
RentPivot(record, t) ==
    IF record.metric_name = "avg_rent_usd_month" /\ record.unit_type = t
    THEN record.value ELSE None

RealtorRecordRaises(record) ==
    /\ record.metric_name = "avg_rent_usd_month"
    /\ record.unit_type \in UnitTypes
    /\ record.value = None

\* the CompProperty built from a Realtor.com record
RealtorComp(record) ==
    [CompProperty EXCEPT !.unit_rents =
        Some([one_bed   |-> RentPivot(record, "1BR"),
              two_bed   |-> RentPivot(record, "2BR"),
              three_bed |-> RentPivot(record, "3BR"),
              four_bed  |-> RentPivot(record, "4BR")])]

\* ------------------------------------------------------------------------
\* store_om_data_in_supabase
\* ------------------------------------------------------------------------
RECURSIVE Flatten(_)
Flatten(parts) == IF parts = <<>> THEN <<>> ELSE Head(parts) \o Flatten(Tail(parts))

\* "OM_" and the address with spaces turned to '_' and commas dropped,
\* as the words that the underscores join
DealId(address) == <<"OM">> \o Flatten(Val(address))

InvestorMetric(deal_id, geography, metric_name, unit_type, value_num, unit) ==
    [deal_id |-> deal_id, geography |-> geography, asset_type |-> "Multifamily",
     metric_name |-> metric_name, unit_type |-> unit_type, value_num |-> value_num,
     unit |-> unit]

\* the rows handed to `insert`
metrics_to_store(om) ==
    LET deal_id == DealId(om.property_summary.address)
        geography == extract_geography_from_address(om.property_summary.address)
        row(metric_name, unit_type, value_num, unit) ==
            InvestorMetric(deal_id, geography, metric_name, unit_type, value_num, unit)
    IN  << row("rentable_sqft", "", om.property_summary.rentable_sqft, "sqft"),
           row("cap_rate_pct", "", om.financials.cap_rate, "%"),
           row("noi_usd", "", om.financials.noi, "USD"),
           row("price_per_sf_usd", "", om.financials.price_per_sqft, "$/sf"),
           row("price_per_unit_usd", "", om.financials.price_per_unit, "$/unit"),
           row("price_per_acre_usd", "", om.financials.price_per_acre, "$/acre") >>
        \o (IF Truthy(om.unit_rents.one_bed)
            THEN <<row("avg_rent_usd_month", "1BR", Val(om.unit_rents.one_bed), "USD/month")>>
            ELSE <<>>)
        \o (IF Truthy(om.unit_rents.two_bed)
            THEN <<row("avg_rent_usd_month", "2BR", Val(om.unit_rents.two_bed), "USD/month")>>
            ELSE <<>>)

VARIABLES
    pc,              \* position of the modelled call
    comps,           \* apply_filters / calculate_comp_stats argument
    filters,         \* apply_filters argument
    filtered_comps,  \* apply_filters result
    stats,           \* calculate_comp_stats result
    om_metrics,      \* calculate_comparisons argument om_data (om_metrics of analyze_om)
    crexi_stats,     \* calculate_comparisons argument
    realtor_stats,   \* calculate_comparisons argument
    comparisons,     \* calculate_comparisons outcome
    supabase,        \* whether the module built a Supabase client
    om_csv,          \* the uploaded file of the request, if any
    om_data,         \* the subject record of analyze_om
    geography,       \* the geography the market data is asked for
    crexi_comps,     \* CREXi comparables of analyze_om
    realtor_comps,   \* Realtor.com comparables of analyze_om
    reads,           \* queries executed on market_metrics
    writes,          \* inserts executed on investor_metrics
    investor_metrics, \* rows the last successful insert stored
    log,             \* what the `except` clauses of the data services printed
    retrieved,       \* history: how many comparables each provider had before filtering
    response         \* what the caller of analyze_om receives

request_vars == <<supabase, om_csv, om_data, geography, crexi_comps, realtor_comps,
                  reads, writes, investor_metrics, log, retrieved, response>>

vars == <<pc, comps, filters, filtered_comps, stats,
          om_metrics, crexi_stats, realtor_stats, comparisons, request_vars>>

\* the variables of analyze_om while a single function is modelled
RequestIdle ==
    /\ supabase = FALSE
    /\ om_csv = None
    /\ om_data = None
    /\ geography = None
    /\ crexi_comps = <<>>
    /\ realtor_comps = <<>>
    /\ reads = 0
    /\ writes = 0
    /\ investor_metrics = <<>>
    /\ log = <<>>
    /\ retrieved = [crexi |-> 0, realtor |-> 0]
    /\ response = None

compare_vars == <<om_metrics, crexi_stats, realtor_stats, comparisons>>

\* the variables of calculate_comparisons while another function is modelled
CompareIdle ==
    /\ om_metrics = None
    /\ crexi_stats = None
    /\ realtor_stats = None
    /\ comparisons = None

\* ------------------------------------------------------------------------
\* SpecFilter: apply_filters on every bounded input
\* ------------------------------------------------------------------------
\* lists of up to MaxComps comparables under a request with at most one bound,
\* and lists of at most one comparable under a request with up to MaxSetBounds
InitFilter ==
    /\ pc = "apply_filters"
    /\ \/ /\ comps \in SeqsUpTo(FilterableComps, MaxComps)
          /\ filters \in SingleBoundFilters
       \/ /\ comps \in SeqsUpTo(CompUniverse, 1)
          /\ filters \in FilterUniverse
    /\ filtered_comps = <<>>
    /\ stats = None
    /\ CompareIdle
    /\ RequestIdle

CallApplyFilters ==
    /\ pc = "apply_filters"
    /\ filtered_comps' = apply_filters(comps, filters)
    /\ pc' = "filtered"
    /\ UNCHANGED <<comps, filters, stats, compare_vars, request_vars>>

NextFilter == CallApplyFilters

SpecFilter == InitFilter /\ [][NextFilter]_vars

\* ------------------------------------------------------------------------
\* SpecStats: calculate_comp_stats on every bounded list
\* ------------------------------------------------------------------------
InitStats ==
    /\ pc = "calculate_comp_stats"
    /\ comps \in SeqsUpTo(CompUniverse, MaxComps)
    /\ filters = CompFilterRequest
    /\ filtered_comps = <<>>
    /\ stats = None
    /\ CompareIdle
    /\ RequestIdle

CallCalculateCompStats ==
    /\ pc = "calculate_comp_stats"
    /\ stats' = calculate_comp_stats(comps)
    /\ pc' = "stats_done"
    /\ UNCHANGED <<comps, filters, filtered_comps, compare_vars, request_vars>>

NextStats == CallCalculateCompStats

SpecStats == InitStats /\ [][NextStats]_vars

\* ------------------------------------------------------------------------
\* SpecCompare: calculate_comparisons on every bounded subject and market
\* ------------------------------------------------------------------------
\* lines 632-637
OmMetrics(om) ==
    [price_per_unit |-> Some(om.financials.price_per_unit),
     price_per_sqft |-> Some(om.financials.price_per_sqft),
     cap_rate       |-> Some(om.financials.cap_rate),
     unit_rents     |-> om.unit_rents]

\* every bounded subject against every bounded market, and the built-in
\* subject against each built-in CREXi comparable taken alone
InitCompare ==
    /\ pc = "calculate_comparisons"
    /\ comps = <<>>
    /\ filters = CompFilterRequest
    /\ filtered_comps = <<>>
    /\ stats = None
    /\ \/ /\ om_metrics \in SubjectUniverse
          /\ crexi_stats \in CrexiMarkets
          /\ realtor_stats \in RealtorMarkets
       \/ /\ om_metrics = OmMetrics(get_mock_om_data)
          /\ crexi_stats \in {calculate_comp_stats(<<get_mock_crexi_comps[i]>>) :
                                 i \in 1..Len(get_mock_crexi_comps)}
          /\ realtor_stats = calculate_comp_stats(get_mock_realtor_comps)
    /\ comparisons = None
    /\ RequestIdle

CallCalculateComparisons ==
    /\ pc = "calculate_comparisons"
    /\ comparisons' = calculate_comparisons(om_metrics, crexi_stats, realtor_stats)
    /\ pc' = "compared"
    /\ UNCHANGED <<comps, filters, filtered_comps, stats, om_metrics, crexi_stats,
                   realtor_stats, request_vars>>

NextCompare == CallCalculateComparisons

SpecCompare == InitCompare /\ [][NextCompare]_vars

\* ------------------------------------------------------------------------
\* Spec: one request to POST /analyze-om
\* ------------------------------------------------------------------------
\* columns whose number the uploads vary
VariedColumns == {"cap_rate", "price_per_sqft", "price_per_unit", "one_bed_rent",
                  "two_bed_rent", "vacancy_rate", "gross_potential_rent"}

\* the example row, and the example row with one cell changed
Rows ==
    {ExampleRow}
    \cup {[ExampleRow EXCEPT ![col] = c] :
            col \in NumericColumns \cup RentColumns, c \in {Absent, Short, Empty, Junk}}
    \cup {[ExampleRow EXCEPT ![col] = Num(v)] : col \in VariedColumns, v \in Vals}
    \cup {[ExampleRow EXCEPT !.effective_gross_income = c] :
            c \in {Junk} \cup {Num(v) : v \in Vals}}
    \cup {[ExampleRow EXCEPT !.opportunity_zone = c] : c \in {Absent, Short, Yes}}
    \cup {[ExampleRow EXCEPT !.address = c] :
            c \in {Absent, Short, Empty, Address(2), Address(3)}}

\* an undecodable file, a file without a data row, and the files of one row
Uploads == {Upload(FALSE, <<>>), Upload(TRUE, <<>>)} \cup {Upload(TRUE, <<row>>) : row \in Rows}

\* records the market_metrics table may hold for the CREXi query
CrexiRecords ==
    {MarketRecord(name, "", v) : name \in CrexiMetricNames, v \in OptVals}
    \cup {MarketRecord("avg_rent_usd_month", "1BR", Some(5))}

\* records the market_metrics table may hold for the Realtor.com query
RealtorRecords ==
    {MarketRecord("avg_rent_usd_month", t, v) : t \in UnitTypes, v \in OptVals}
    \cup {MarketRecord("avg_rent_usd_month", "Studio", Some(5)),
          MarketRecord("cap_rate_pct", "", Some(5))}

\* a request uploads any file under no bound, or no file under any single bound
Init ==
    /\ pc = "request"
    /\ supabase \in BOOLEAN
    /\ \/ /\ om_csv \in {Some(u) : u \in Uploads}
          /\ filters = CompFilterRequest
       \/ /\ om_csv = None
          /\ filters \in SingleBoundFilters
    /\ om_data = None
    /\ geography = None
    /\ crexi_comps = <<>>
    /\ realtor_comps = <<>>
    /\ reads = 0
    /\ writes = 0
    /\ investor_metrics = <<>>
    /\ log = <<>>
    /\ retrieved = [crexi |-> 0, realtor |-> 0]
    /\ response = None
    /\ comps = <<>>
    /\ filtered_comps = <<>>
    /\ stats = None
    /\ CompareIdle

\* `except Exception as e: raise HTTPException(status_code=500, ...)`
AnalysisFailed(cause) ==
    /\ response' = Some([status_code |-> 500, detail |-> "Analysis failed", cause |-> cause])
    /\ pc' = "done"

\* str(e) of the exception that left the `try` block
Cause(status_code, text) == [status_code |-> status_code, text |-> text]

\* lines 600-607: read and parse the upload, or take the built-in record
ReadUpload ==
    /\ pc = "request"
    /\ IF om_csv = None
       THEN /\ om_data' = Some(get_mock_om_data)
            /\ pc' = "geography"
            /\ UNCHANGED response
       ELSE IF ~ Val(om_csv).decodes
       THEN /\ AnalysisFailed(Cause(0, "UnicodeDecodeError"))
            /\ UNCHANGED om_data
       ELSE LET parsed == parse_csv_om_data(Val(om_csv).rows)
            IN  IF parsed.raised
                THEN /\ AnalysisFailed(Cause(parsed.status_code, parsed.detail))
                     /\ UNCHANGED om_data
                ELSE /\ om_data' = parsed.om_data
                     /\ pc' = "geography"
                     /\ UNCHANGED response
    /\ UNCHANGED <<comps, filters, filtered_comps, stats, compare_vars, supabase, om_csv,
                   geography, crexi_comps, realtor_comps, reads, writes, investor_metrics, log,
                   retrieved>>

\* line 610
ExtractGeography ==
    /\ pc = "geography"
    /\ IF GeographyRaises(Val(om_data).property_summary.address)
       THEN /\ AnalysisFailed(Cause(0, "AttributeError"))
            /\ UNCHANGED geography
       ELSE /\ geography' =
                Some(extract_geography_from_address(Val(om_data).property_summary.address))
            /\ pc' = "market"
            /\ UNCHANGED response
    /\ UNCHANGED <<comps, filters, filtered_comps, stats, compare_vars, supabase, om_csv,
                   om_data, crexi_comps, realtor_comps, reads, writes, investor_metrics, log,
                   retrieved>>

\* lines 201-202: no client, no query
NoClient ==
    /\ pc = "market"
    /\ ~ supabase
    /\ crexi_comps' = <<>>
    /\ realtor_comps' = <<>>
    /\ pc' = "fallback"
    /\ UNCHANGED <<comps, filters, filtered_comps, stats, compare_vars, supabase, om_csv,
                   om_data, geography, reads, writes, investor_metrics, response, log,
                   retrieved>>

\* line 252: `print(f"Error fetching from Supabase: {str(e)}")`
FetchError == "Error fetching from Supabase"

\* line 450: `print(f"Error storing OM data in Supabase: {str(e)}")`
StoreError == "Error storing OM data in Supabase"

\* what `execute()` does: raise, or return the records in `data`
Executed(raises, data) == [raises |-> raises, data |-> data]

\* `for record in crexi_response.data: crexi_comps.append(CompProperty(...))`
CrexiComps(data) == [i \in 1..Len(data) |-> CrexiComp(data[i])]

\* `for record in realtor_response.data: realtor_comps.append(CompProperty(...))`
RealtorComps(data) == [i \in 1..Len(data) |-> RealtorComp(data[i])]

\* lines 206-222: the CREXi query and its pivot; an exception ends the function
\* in the `except` clause, which returns two empty lists
QueryCrexi ==
    /\ pc = "market"
    /\ supabase
    /\ reads' = reads + 1
    /\ \E result \in {Executed(TRUE, <<>>)}
                     \cup {Executed(FALSE, data) :
                             data \in IF om_csv = None
                                      THEN SeqsUpTo(CrexiRecords, MaxRows) ELSE {<<>>}} :
          IF result.raises \/ \E i \in 1..Len(result.data) : CrexiRecordRaises(result.data[i])
          THEN /\ crexi_comps' = <<>>
               /\ realtor_comps' = <<>>
               /\ log' = Append(log, FetchError)
               /\ pc' = "fallback"
          ELSE /\ crexi_comps' = CrexiComps(result.data)
               /\ UNCHANGED <<realtor_comps, log>>
               /\ pc' = "query_realtor"
    /\ UNCHANGED <<comps, filters, filtered_comps, stats, compare_vars, supabase, om_csv,
                   om_data, geography, writes, investor_metrics, response,
                   retrieved>>

\* lines 225-253: the Realtor.com query and its pivot
\* (the table's rows vary up to MaxRows after an empty CREXi answer, up to one
\* row after a CREXi answer of one record, and are fixed otherwise)
QueryRealtor ==
    /\ pc = "query_realtor"
    /\ reads' = reads + 1
    /\ \E result \in {Executed(TRUE, <<>>)}
                     \cup {Executed(FALSE, data) :
                             data \in IF om_csv = None /\ Len(crexi_comps) <= 1
                                      THEN SeqsUpTo(RealtorRecords,
                                                    IF crexi_comps = <<>> THEN MaxRows ELSE 1)
                                      ELSE {<<>>, <<MarketRecord("avg_rent_usd_month",
                                                                 "1BR", Some(5))>>}} :
          IF result.raises \/ \E i \in 1..Len(result.data) : RealtorRecordRaises(result.data[i])
          THEN /\ crexi_comps' = <<>>
               /\ realtor_comps' = <<>>
               /\ log' = Append(log, FetchError)
          ELSE /\ realtor_comps' = RealtorComps(result.data)
               /\ UNCHANGED <<crexi_comps, log>>
    /\ pc' = "fallback"
    /\ UNCHANGED <<comps, filters, filtered_comps, stats, compare_vars, supabase, om_csv,
                   om_data, geography, writes, investor_metrics, response,
                   retrieved>>

\* the fallback with the second `if` left out
Fallback_CrexiOnly ==
    /\ pc = "fallback"
    /\ crexi_comps' = IF crexi_comps = <<>> THEN get_mock_crexi_comps ELSE crexi_comps
    /\ retrieved' = [crexi |-> Len(crexi_comps'), realtor |-> Len(realtor_comps)]
    /\ pc' = "filter"
    /\ UNCHANGED <<comps, filters, filtered_comps, stats, compare_vars, supabase, om_csv,
                   om_data, geography, realtor_comps, reads, writes, investor_metrics,
                   response, log>>

\* lines 618-621
Fallback ==
    /\ pc = "fallback"
    /\ crexi_comps' = IF crexi_comps = <<>> THEN get_mock_crexi_comps ELSE crexi_comps
    /\ realtor_comps' = IF realtor_comps = <<>> THEN get_mock_realtor_comps ELSE realtor_comps
    /\ retrieved' = [crexi |-> Len(crexi_comps'), realtor |-> Len(realtor_comps')]
    /\ pc' = "filter"
    /\ UNCHANGED <<comps, filters, filtered_comps, stats, compare_vars, supabase, om_csv,
                   om_data, geography, reads, writes, investor_metrics, response, log>>

\* lines 624-625
FilterComps ==
    /\ pc = "filter"
    /\ crexi_comps' = apply_filters(crexi_comps, filters)
    /\ realtor_comps' = apply_filters(realtor_comps, filters)
    /\ pc' = "stats"
    /\ UNCHANGED <<comps, filters, filtered_comps, stats, compare_vars, supabase, om_csv,
                   om_data, geography, reads, writes, investor_metrics, response, log,
                   retrieved>>

\* lines 628-629
ComputeStats ==
    /\ pc = "stats"
    /\ crexi_stats' = calculate_comp_stats(crexi_comps)
    /\ realtor_stats' = calculate_comp_stats(realtor_comps)
    /\ pc' = "compare"
    /\ UNCHANGED <<comps, filters, filtered_comps, stats, om_metrics, comparisons,
                   request_vars>>

\* lines 632-638
Compare ==
    /\ pc = "compare"
    /\ om_metrics' = OmMetrics(Val(om_data))
    /\ comparisons' = calculate_comparisons(om_metrics', crexi_stats, realtor_stats)
    /\ IF comparisons'.raised
       THEN AnalysisFailed(Cause(0, "TypeError"))
       ELSE /\ pc' = "store"
            /\ UNCHANGED response
    /\ UNCHANGED <<comps, filters, filtered_comps, stats, crexi_stats, realtor_stats,
                   supabase, om_csv, om_data, geography, crexi_comps, realtor_comps,
                   reads, writes, investor_metrics, log,
                   retrieved>>

\* the store with `if supabase:` for `if supabase and om_csv:`
Store_AnyRecord ==
    /\ pc = "store"
    /\ IF supabase
       THEN /\ writes' = writes + 1
            /\ \E inserted \in BOOLEAN :
                  IF inserted
                  THEN /\ investor_metrics' = metrics_to_store(Val(om_data))
                       /\ UNCHANGED log
                  ELSE /\ log' = Append(log, StoreError)
                       /\ UNCHANGED investor_metrics
       ELSE UNCHANGED <<writes, investor_metrics, log>>
    /\ pc' = "respond"
    /\ UNCHANGED <<comps, filters, filtered_comps, stats, compare_vars, supabase, om_csv,
                   om_data, geography, crexi_comps, realtor_comps, reads, response,
                   retrieved>>

\* the store without its `try`: the exception of the insert reaches the
\* `except` of analyze_om
Store_Uncaught ==
    /\ pc = "store"
    /\ IF supabase /\ om_csv # None
       THEN /\ writes' = writes + 1
            /\ \E inserted \in BOOLEAN :
                  IF inserted
                  THEN /\ investor_metrics' = metrics_to_store(Val(om_data))
                       /\ pc' = "respond"
                       /\ UNCHANGED response
                  ELSE /\ AnalysisFailed(Cause(0, "APIError"))
                       /\ UNCHANGED investor_metrics
            /\ UNCHANGED log
       ELSE /\ pc' = "respond"
            /\ UNCHANGED <<writes, investor_metrics, log, response>>
    /\ UNCHANGED <<comps, filters, filtered_comps, stats, compare_vars, supabase, om_csv,
                   om_data, geography, crexi_comps, realtor_comps, reads,
                   retrieved>>

\* lines 641-642 and store_om_data_in_supabase: one insert, whose exception is
\* printed and dropped
Store ==
    /\ pc = "store"
    /\ IF supabase /\ om_csv # None
       THEN /\ writes' = writes + 1
            /\ \E inserted \in BOOLEAN :
                  IF inserted
                  THEN /\ investor_metrics' = metrics_to_store(Val(om_data))
                       /\ UNCHANGED log
                  ELSE /\ log' = Append(log, StoreError)
                       /\ UNCHANGED investor_metrics
       ELSE UNCHANGED <<writes, investor_metrics, log>>
    /\ pc' = "respond"
    /\ UNCHANGED <<comps, filters, filtered_comps, stats, compare_vars, supabase, om_csv,
                   om_data, geography, crexi_comps, realtor_comps, reads, response,
                   retrieved>>

\* lines 645-655
AnalysisResponse ==
    [property_summary  |-> Val(om_data).property_summary,
     unit_rents        |-> Val(om_data).unit_rents,
     financials        |-> Val(om_data).financials,
     vacancy_egi       |-> Val(om_data).vacancy_egi,
     crexi_comps       |-> crexi_stats,
     realtor_comps     |-> realtor_stats,
     comparisons       |-> comparisons.comparisons,
     raw_crexi_comps   |-> crexi_comps,
     raw_realtor_comps |-> realtor_comps]

Respond ==
    /\ pc = "respond"
    /\ response' = Some([status_code |-> 200, body |-> AnalysisResponse])
    /\ pc' = "done"
    /\ UNCHANGED <<comps, filters, filtered_comps, stats, compare_vars, supabase, om_csv,
                   om_data, geography, crexi_comps, realtor_comps, reads, writes,
                   investor_metrics, log,
                   retrieved>>

Next ==
    \/ ReadUpload
    \/ ExtractGeography
    \/ NoClient
    \/ QueryCrexi
    \/ QueryRealtor
    \/ Fallback
    \/ FilterComps
    \/ ComputeStats
    \/ Compare
    \/ Store
    \/ Respond

Spec == Init /\ [][Next]_vars

\* ========================================================================
\* Properties
\* ========================================================================
\* the comparable field each bound of CompFilterRequest refers to
BoundField ==
    [price_min |-> "price", price_max |-> "price", units_min |-> "units",
     units_max |-> "units", distance_miles |-> "distance_miles",
     cap_rate_min |-> "cap_rate", cap_rate_max |-> "cap_rate",
     price_per_unit_min |-> "price_per_unit", price_per_unit_max |-> "price_per_unit",
     price_per_sqft_min |-> "price_per_sqft", price_per_sqft_max |-> "price_per_sqft",
     price_per_acre_min |-> "price_per_acre", price_per_acre_max |-> "price_per_acre"]

MinBounds == {"price_min", "units_min", "cap_rate_min", "price_per_unit_min",
              "price_per_sqft_min", "price_per_acre_min"}

\* the bound b, read as "set whenever it is not null", admits the comparable c
Admits(b, c, fs) ==
    \/ fs[b] = None
    \/ c[BoundField[b]] = None
    \/ IF b \in MinBounds THEN Val(c[BoundField[b]]) >= Val(fs[b])
                          ELSE Val(c[BoundField[b]]) <= Val(fs[b])

AdmittedByAll(c, fs) == \A b \in BoundNames : Admits(b, c, fs)

\* C1: apply_filters returns exactly the sublist of the comparables that, for
\* every bound that is not null (0 included), lack the field or satisfy the
\* bound; a reported value (0 included) that violates a set bound is excluded.
C1_ExactSublist ==
    pc = "filtered" =>
        filtered_comps = SelectSeq(comps, LAMBDA c : AdmittedByAll(c, filters))

\* a comparable lacks every field that a non-null bound refers to
MissingEveryBoundedField(c, fs) ==
    \A b \in BoundNames : fs[b] # None => c[BoundField[b]] = None

\* C2: a comparable that lacks every field referred to by a set bound is in
\* the output of apply_filters, whatever the values of the bounds.
C2_MissingNeverExcluded ==
    pc = "filtered" =>
        \A i \in 1..Len(comps) :
            MissingEveryBoundedField(comps[i], filters) =>
                \E j \in 1..Len(filtered_comps) : filtered_comps[j] = comps[i]

\* apply_filters has returned a comparable that lacks the field of a bound
\* whose value is positive, next to one that was excluded by that bound
C2_Witness ==
    /\ pc = "filtered"
    /\ \E b \in BoundNames, i \in 1..Len(comps) :
          /\ Truthy(filters[b])
          /\ comps[i][BoundField[b]] = None
          /\ \E j \in 1..Len(filtered_comps) : filtered_comps[j] = comps[i]
    /\ Len(filtered_comps) < Len(comps)

\* C3: with all 13 bounds unset, apply_filters returns its input list: same
\* elements, same length, same order.
C3_UnsetIsIdentity ==
    (pc = "filtered" /\ filters = CompFilterRequest) => filtered_comps = comps

\* apply_filters has returned from a call with no bound set on a list of two
\* different comparables, one of them reporting a value
C3_Witness ==
    /\ pc = "filtered"
    /\ filters = CompFilterRequest
    /\ Len(comps) = MaxComps
    /\ comps[1] # comps[2]
    /\ \E i \in 1..Len(comps), f \in NumericFields : Truthy(comps[i][f])
    /\ filtered_comps = comps

RECURSIVE IsSubsequence(_, _)
IsSubsequence(s, t) ==
    IF s = <<>> THEN TRUE
    ELSE IF t = <<>> THEN FALSE
    ELSE IF Head(s) = Head(t) THEN IsSubsequence(Tail(s), Tail(t))
    ELSE IsSubsequence(s, Tail(t))

\* C4: the output of apply_filters is a subsequence of its input (survivors in
\* input order, nothing added or duplicated) and the call leaves the input
\* list and the filter as they were.
C4_OrderedSubsequence ==
    /\ [](pc = "filtered" => IsSubsequence(filtered_comps, comps))
    /\ [][comps' = comps /\ filters' = filters]_vars

\* apply_filters has returned two different survivors under a set bound
C4_Witness ==
    /\ pc = "filtered"
    /\ \E b \in BoundNames : Truthy(filters[b])
    /\ Len(filtered_comps) = 2
    /\ filtered_comps[1] # filtered_comps[2]

\* the CompStats average of each numeric field of a comparable
AvgField ==
    [price |-> "avg_price", units |-> "avg_units", cap_rate |-> "avg_cap_rate",
     price_per_unit |-> "avg_price_per_unit", price_per_sqft |-> "avg_price_per_sqft",
     price_per_acre |-> "avg_price_per_acre", noi |-> "avg_noi"]

StatFields == NumericFields \ {"distance_miles"}

\* the positions of the comparables that report the numeric field f
Reporting(cs, f) == {i \in 1..Len(cs) : cs[i][f] # None}

\* the positions of the comparables that report the rent r
ReportingRent(cs, r) ==
    {i \in 1..Len(cs) : cs[i].unit_rents # None /\ Val(cs[i].unit_rents)[r] # None}

\* C5: when no comparable of the list reports a numeric field, the average of
\* that field in the returned stats is null, never 0; for the empty list both
\* counts are 0 and all averages are null.
C5_NoDataIsUndefined ==
    pc = "stats_done" =>
        /\ \A f \in StatFields : Reporting(comps, f) = {} => stats[AvgField[f]] = None
        /\ comps = <<>> =>
              /\ stats.total_scraped = 0
              /\ stats.filtered_count = 0
              /\ stats.avg_unit_rents = None

RECURSIVE Total(_, _)
Total(S, g) ==
    IF S = {} THEN 0
    ELSE LET i == CHOOSE x \in S : TRUE IN g[i] + Total(S \ {i}, g)

\* the rational a is the quotient total / count
IsQuotient(a, total, count) == a # None /\ Val(a).n * count = total * Val(a).d

\* C6: when at least one comparable reports a field, its average is the sum of
\* the reported values (a reported 0 included, null skipped) divided by the
\* number of comparables reporting it; likewise for each of the four rents.
C6_AverageOfReported ==
    pc = "stats_done" =>
        /\ \A f \in StatFields :
              Reporting(comps, f) # {} =>
                  LET value == [i \in Reporting(comps, f) |-> Val(comps[i][f])]
                  IN  IsQuotient(stats[AvgField[f]],
                                 Total(Reporting(comps, f), value),
                                 Cardinality(Reporting(comps, f)))
        /\ \A r \in RentFields :
              ReportingRent(comps, r) # {} =>
                  LET rent == [i \in ReportingRent(comps, r) |->
                                  Val(Val(comps[i].unit_rents)[r])]
                  IN  /\ stats.avg_unit_rents # None
                      /\ IsQuotient(Val(stats.avg_unit_rents)[r],
                                    Total(ReportingRent(comps, r), rent),
                                    Cardinality(ReportingRent(comps, r)))

\* calculate_comp_stats has averaged a reported 0 and a reported 10 to 5, next
\* to a rent that one comparable reports as 0 and the other does not report
C6_Witness ==
    /\ pc = "stats_done"
    /\ \/ \E f \in StatFields :
             /\ Len(comps) = 2
             /\ comps[1][f] = Some(0)
             /\ comps[2][f] = Some(10)
             /\ IsQuotient(stats[AvgField[f]], 5, 1)
       \/ \E r \in RentFields :
             /\ Len(comps) = 2
             /\ comps[1].unit_rents = Some([UnitRentData EXCEPT ![r] = Some(0)])
             /\ comps[2].unit_rents = Some(UnitRentData)
             /\ IsQuotient(Val(stats.avg_unit_rents)[r], 0, 1)

FixedOrder == <<"Price per Unit", "Price per SqFt", "Cap Rate", "1BR Rent", "2BR Rent">>

\* the subject value a metric compares
SubjectOf(m, om) ==
    CASE m = "Price per Unit" -> om.price_per_unit
      [] m = "Price per SqFt" -> om.price_per_sqft
      [] m = "Cap Rate"       -> om.cap_rate
      [] m = "1BR Rent"       -> om.unit_rents.one_bed
      [] m = "2BR Rent"       -> om.unit_rents.two_bed

\* the market average a metric compares
MarketOf(m, cs, rs) ==
    CASE m = "Price per Unit" -> cs.avg_price_per_unit
      [] m = "Price per SqFt" -> cs.avg_price_per_sqft
      [] m = "Cap Rate"       -> cs.avg_cap_rate
      [] m = "1BR Rent"       -> IF rs.avg_unit_rents = None THEN None
                                 ELSE Val(rs.avg_unit_rents).one_bed
      [] m = "2BR Rent"       -> IF rs.avg_unit_rents = None THEN None
                                 ELSE Val(rs.avg_unit_rents).two_bed

Metrics == {FixedOrder[i] : i \in 1..Len(FixedOrder)}

\* the metric has a result in the list
Emitted(m, results) == \E i \in 1..Len(results) : results[i].metric_name = m

\* the market average is null or 0
NoMarket(a) == a = None \/ Val(a).n = 0

\* C7: no ComparisonResult is emitted for a metric whose market average is 0
\* or null or whose subject value is null; every emitted result carries the
\* subject value, which is present, and the market average, which is present
\* and not 0.
C7_NoResultWithoutData ==
    pc = "compared" =>
        LET results == comparisons.comparisons
        IN  /\ \A m \in Metrics :
                  (\/ NoMarket(MarketOf(m, crexi_stats, realtor_stats))
                   \/ SubjectOf(m, om_metrics) = None)
                      => ~ Emitted(m, results)
            /\ \A i \in 1..Len(results) :
                  /\ results[i].metric_name \in Metrics
                  /\ results[i].om_value # None
                  /\ results[i].om_value = SubjectOf(results[i].metric_name, om_metrics)
                  /\ ~ NoMarket(results[i].market_value)
                  /\ results[i].market_value =
                        MarketOf(results[i].metric_name, crexi_stats, realtor_stats)

\* calculate_comparisons has returned a result for price per unit while it
\* skipped the cap rate for a market average of 0 and the 1BR rent for a null
\* subject value
C7_Witness ==
    /\ pc = "compared"
    /\ Emitted("Price per Unit", comparisons.comparisons)
    /\ crexi_stats.avg_cap_rate # None
    /\ Val(crexi_stats.avg_cap_rate).n = 0
    /\ Truthy(om_metrics.cap_rate)
    /\ ~ Emitted("Cap Rate", comparisons.comparisons)
    /\ om_metrics.unit_rents.one_bed = None
    /\ ~ NoMarket(MarketOf("1BR Rent", crexi_stats, realtor_stats))
    /\ ~ Emitted("1BR Rent", comparisons.comparisons)

Names(results) == [i \in 1..Len(results) |-> results[i].metric_name]

\* what decides a metric, read from its own subject value and market average
\* only: a positive average for the two prices, a subject value and an average
\* that are both neither null nor 0 for the cap rate and the rents
OwnData(m, subject, market) ==
    IF m \in {"Price per Unit", "Price per SqFt"}
    THEN market # None /\ Val(market).n > 0
    ELSE Truthy(subject) /\ market # None /\ Val(market).n # 0

\* the request ran on the built-in subject and comparables under no filter
BuiltInRun ==
    /\ om_csv = None
    /\ filters = CompFilterRequest
    /\ crexi_comps = get_mock_crexi_comps
    /\ realtor_comps = get_mock_realtor_comps

\* C9: the comparison list of a response is a subsequence without duplicates
\* of the fixed order; a metric is in it exactly when its own subject value and
\* market average allow it, whatever the other metrics and the deviations are;
\* on the built-in data under no filter it is the five metrics in that order.
C9_FixedOrderIndependent ==
    (pc = "done" /\ Val(response).status_code = 200) =>
        LET results == Val(response).body.comparisons
        IN  /\ IsSubsequence(Names(results), FixedOrder)
            /\ \A m \in Metrics :
                  Emitted(m, results) <=>
                      OwnData(m, SubjectOf(m, om_metrics),
                              MarketOf(m, crexi_stats, realtor_stats))
            /\ BuiltInRun => Names(results) = FixedOrder

\* a response lists the cap rate and the 2BR rent alone: the two prices before
\* the cap rate and the 1BR rent before the 2BR rent were skipped
C9_Witness ==
    /\ pc = "done"
    /\ Val(response).status_code = 200
    /\ Names(Val(response).body.comparisons) = <<"Cap Rate", "2BR Rent">>

\* C10: a request whose uploaded file cannot be parsed is answered with the
\* client error 400 and the parser's message, not with the server error 500.
C10_UnparseableIs400 ==
    (/\ pc = "done"
     /\ om_csv # None
     /\ Val(om_csv).decodes
     /\ ParseRaises(Val(om_csv).rows)) =>
        /\ Val(response).status_code = 400
        /\ Val(response).detail = "Error parsing CSV"

\* a message the data services printed
Printed(message) == \E i \in 1..Len(log) : log[i] = message

\* C11: when no client is configured or a read raised, both lists come back
\* empty; a list that came back empty is replaced by the three built-in
\* comparables of its provider before filtering, and the request goes on;
\* every request that got as far as reading market data is answered with 200.
C11_FallbackToBuiltIn ==
    /\ [](pc = "fallback" /\ (~ supabase \/ Printed(FetchError))
             => crexi_comps = <<>> /\ realtor_comps = <<>>)
    /\ [][pc = "fallback" =>
             /\ pc' = "filter"
             /\ response' = None
             /\ crexi_comps = <<>>
                   => crexi_comps' = get_mock_crexi_comps /\ Len(crexi_comps') = 3
             /\ realtor_comps = <<>>
                   => realtor_comps' = get_mock_realtor_comps /\ Len(realtor_comps') = 3]_vars
    /\ [](pc = "done" /\ geography # None => Val(response).status_code = 200)

\* the Realtor.com read raised after the CREXi read returned, and the caller
\* got a response computed on the built-in comparables of both providers
C11_Witness ==
    /\ pc = "done"
    /\ reads = 2
    /\ log = <<FetchError>>
    /\ filters = CompFilterRequest
    /\ Val(response).status_code = 200
    /\ Val(response).body.raw_crexi_comps = get_mock_crexi_comps
    /\ Val(response).body.raw_realtor_comps = get_mock_realtor_comps

\* C12: the store step changes nothing the response is built from and never
\* ends the request; whether the insert succeeded or raised, the caller gets
\* the 200 response built from the subject record, the statistics, the
\* comparisons and the filtered comparables.
C12_WriteFailureInvisible ==
    /\ [][pc = "store" =>
             /\ pc' = "respond"
             /\ UNCHANGED <<om_data, crexi_stats, realtor_stats, comparisons,
                            crexi_comps, realtor_comps, response>>]_vars
    /\ [](pc = "done" /\ writes > 0 =>
             response = Some([status_code |-> 200, body |-> AnalysisResponse]))

\* an insert raised, and the caller still got the 200 response
C12_Witness ==
    /\ pc = "done"
    /\ writes = 1
    /\ Printed(StoreError)
    /\ investor_metrics = <<>>
    /\ Val(response).status_code = 200

\* C13: a request executes at most one query on the data store and at most
\* one insert, the insert only for an uploaded record; a query or an insert
\* that raised is not executed again.
C13_OneReadOneWrite ==
    /\ [](/\ reads <= 1
          /\ writes <= 1
          /\ writes > 0 => om_csv # None)
    /\ [][/\ Printed(FetchError) => reads' = reads
          /\ Printed(StoreError) => writes' = writes]_vars

\* C13 as amended: a request executes at most two queries on the data store,
\* the CREXi query first and the Realtor.com query after it, each at most
\* once and only with a client, and at most one insert, the insert only for
\* an uploaded record with a client; a query or an insert that raised is not
\* executed again.
C13_TwoReadsOneWrite ==
    /\ [](/\ reads <= 2
          /\ writes <= 1
          /\ reads > 0 \/ writes > 0 => supabase
          /\ writes > 0 => om_csv # None)
    /\ [][/\ reads' # reads =>
                /\ reads' = reads + 1
                /\ \/ pc = "market" /\ reads = 0
                   \/ pc = "query_realtor" /\ reads = 1
                /\ pc' \notin {pc, "market"}
          /\ writes' # writes => writes = 0 /\ writes' = 1 /\ pc = "store" /\ pc' = "respond"
          /\ Printed(FetchError) => reads' = reads
          /\ Printed(StoreError) => writes' = writes]_vars

\* a request with an upload executed both queries and the insert
C13_Witness ==
    /\ pc = "done"
    /\ om_csv # None
    /\ reads = 2
    /\ writes = 1

\* C14: in a response, each provider's total_scraped is the number of
\* comparables it had before filtering, its filtered_count the number left
\* after filtering, and total_scraped >= filtered_count.
C14_CountsBeforeAndAfter ==
    (pc = "done" /\ Val(response).status_code = 200) =>
        LET body == Val(response).body
        IN  /\ body.crexi_comps.total_scraped = retrieved.crexi
            /\ body.crexi_comps.filtered_count = Len(body.raw_crexi_comps)
            /\ body.crexi_comps.total_scraped >= body.crexi_comps.filtered_count
            /\ body.realtor_comps.total_scraped = retrieved.realtor
            /\ body.realtor_comps.filtered_count = Len(body.raw_realtor_comps)
            /\ body.realtor_comps.total_scraped >= body.realtor_comps.filtered_count

\* income = rent * (1 - rate), the rate in hundredths and the income a
\* quotient whose denominator divides 100
IsRentLessVacancy(income, rent, rate) ==
    /\ 100 % income.d = 0
    /\ income.n * (100 \div income.d) = rent * (100 - rate)

\* C15: the subject record of a request, parsed from an upload or built in,
\* has effective_gross_income = gross_potential_rent * (1 - vacancy_rate),
\* whatever an effective_gross_income column of the upload says; for the
\* example row and for the built-in record it is 2162000.
C15_IncomeIsDerived ==
    om_data # None =>
        LET v == Val(om_data).vacancy_egi
        IN  /\ IsRentLessVacancy(v.effective_gross_income, v.gross_potential_rent,
                                 v.vacancy_rate)
            /\ om_csv # None =>
                  /\ v.vacancy_rate = Float(Val(om_csv).rows[1].vacancy_rate)
                  /\ v.gross_potential_rent = Float(Val(om_csv).rows[1].gross_potential_rent)
            /\ om_csv = None \/ Val(om_csv).rows = <<ExampleRow>> =>
                  v.effective_gross_income.n = 2162000 * v.effective_gross_income.d

\* an upload with an effective_gross_income column of its own was parsed
C15_Witness ==
    /\ om_csv # None
    /\ om_data # None
    /\ Val(om_csv).rows[1].effective_gross_income = Num(5)
    /\ Val(om_data).vacancy_egi.effective_gross_income = Rat(216200000, 100)

\* the cell of a missing value: no such column, a row that ends before the
\* column, or an empty cell
Missing(cell) == cell.k \in {"absent", "short", "empty"}

\* the field of the subject record a numeric column is read into
NumericField(om, col) ==
    CASE col \in {"rentable_sqft", "avg_sqft_per_unit", "asking_price", "lot_size_acres",
                  "total_units"}
            -> om.property_summary[col]
      [] col \in {"noi", "price_per_sqft", "price_per_unit", "price_per_acre"}
            -> om.financials[col]
      [] col = "cap_rate" -> om.financials.cap_rate
      [] col \in {"vacancy_rate", "gross_potential_rent"} -> om.vacancy_egi[col]

\* every numeric cell of the row is a number or missing, and nothing else
\* in the row stops the parser
OnlyMissing(row) ==
    /\ \A col \in NumericColumns : row[col].k = "num" \/ Missing(row[col])
    /\ \A col \in RentColumns : row[col].k # "junk"
    /\ row.opportunity_zone.k # "short"

\* C16: an uploaded row whose numeric cells are numbers or missing is parsed,
\* and every missing numeric field of the record is 0.
C16_MissingDefaultsToZero ==
    (/\ pc # "request"
     /\ om_csv # None
     /\ Val(om_csv).decodes
     /\ Val(om_csv).rows # <<>>
     /\ OnlyMissing(Val(om_csv).rows[1])) =>
        /\ om_data # None
        /\ \A col \in NumericColumns :
              Missing(Val(om_csv).rows[1][col]) => NumericField(Val(om_data), col) = 0
        /\ Missing(Val(om_csv).rows[1].cap_rate) =>
              Val(om_data).property_summary.cap_rate = 0

\* the metrics compared as a ratio of the market value
RatioMetrics == {"Price per Unit", "Price per SqFt", "1BR Rent", "2BR Rent"}

\* deviation = (subject - market) / market * 100
IsPercentOfMarket(deviation, subject, market) ==
    deviation.n * market.n = (subject * market.d - market.n) * 100 * deviation.d

\* deviation = subject - market, in percentage points of cap rates in tenths
IsPointDifference(deviation, subject, market) ==
    deviation.n * 10 * market.d = (subject * market.d - market.n) * deviation.d

\* the magnitude of a quotient in hundredths, rounded
Hundredths(deviation) ==
    RoundHalfEven(100 * (IF deviation.n < 0 THEN 0 - deviation.n ELSE deviation.n),
                  deviation.d)

\* the call returned its list for a subject and a market of the bounded universe
ComparedBounded == pc = "compared" /\ ~ comparisons.raised /\ om_metrics \in SubjectUniverse

\* the call returned its list for the built-in subject against the first
\* built-in CREXi comparable: price per unit 285417 against 291304, cap rate
\* 5.4 against 5.5
ComparedExample ==
    /\ pc = "compared"
    /\ ~ comparisons.raised
    /\ om_metrics = OmMetrics(get_mock_om_data)
    /\ crexi_stats = calculate_comp_stats(<<get_mock_crexi_comps[1]>>)

\* the formula and the annotation of every emitted result
FormulaAndPrefix(r) ==
    LET subject == Val(r.om_value)
        market == Val(r.market_value)
        deviation == r.deviation_percent
    IN  /\ r.metric_name \in RatioMetrics => IsPercentOfMarket(deviation, subject, market)
        /\ r.metric_name = "Cap Rate" => IsPointDifference(deviation, subject, market)
        /\ r.deviation_comment.sign = "+" <=> deviation.n > 0

\* the deviation is negative exactly when the subject is below the market
NegativeIffBelow(r) ==
    r.deviation_percent.n < 0
        <=> Val(r.om_value) * Val(r.market_value).d < Val(r.market_value).n

\* the example results: the cap rate deviation and the price per unit
\* deviation, the latter in hundredths
ExampleResults(hundredths) ==
    LET results == comparisons.comparisons
    IN  /\ Names(results) = FixedOrder
        /\ results[3].deviation_percent = Rat(-1, 10)
        /\ results[3].deviation_comment.sign = "-"
        /\ results[3].deviation_comment.tenths = 1
        /\ results[1].deviation_percent.n < 0
        /\ results[1].deviation_comment.sign = "-"
        /\ Hundredths(results[1].deviation_percent) = hundredths

\* C17: every emitted result has deviation (subject - market) / market * 100
\* for the two prices and the two rents and subject - market for the cap
\* rate; the deviation is negative exactly when subject < market and the
\* annotation starts with '+' exactly when the deviation is above 0; cap rate
\* 5.4 against 5.5 gives -0.1, price per unit 285417 against 291304 gives a
\* negative deviation of 1.96 to the hundredth, without '+'.
C17_DeviationAndPrefix ==
    /\ ComparedBounded =>
          \A i \in 1..Len(comparisons.comparisons) :
              /\ FormulaAndPrefix(comparisons.comparisons[i])
              /\ NegativeIffBelow(comparisons.comparisons[i])
    /\ ComparedExample => ExampleResults(196)

\* C17 as amended: the same formulas and the same rule for '+'; the deviation
\* is negative exactly when subject < market for the cap rate and for every
\* metric whose market value is above 0; cap rate 5.4 against 5.5 gives -0.1,
\* price per unit 285417 against 291304 gives a negative deviation of 2.02 to
\* the hundredth, written -2.0 without '+'.
C17_DeviationAndPrefixPositiveMarket ==
    /\ ComparedBounded =>
          \A i \in 1..Len(comparisons.comparisons) :
              LET r == comparisons.comparisons[i]
              IN  /\ FormulaAndPrefix(r)
                  /\ r.metric_name = "Cap Rate" \/ Val(r.market_value).n > 0
                        => NegativeIffBelow(r)
    /\ ComparedExample =>
          /\ ExampleResults(202)
          /\ comparisons.comparisons[1].deviation_comment.tenths = 20

\* the built-in subject was compared with the first built-in CREXi comparable:
\* five results, the price per unit deviation -2.02 to the hundredth
C17_Witness ==
    /\ ComparedExample
    /\ Len(comparisons.comparisons) = 5
    /\ comparisons.comparisons[1].deviation_comment.sign = "-"
    /\ Hundredths(comparisons.comparisons[1].deviation_percent) = 202

====
